---------------------------- MODULE Spec2Model ----------------------------
(***************************************************************************)
(* Appointment scheduling and capacity accounting of the hospital          *)
(* management system (Calendar.py), as a state machine.                    *)
(*                                                                         *)
(* A session is one CalendarApp window.  It loads the appointments file    *)
(* once, when it is constructed, and from then on works on its own         *)
(* in-memory copy (appts_df), which it writes back as a whole on every     *)
(* booking.  Two sessions over the same file are two running copies of     *)
(* the application.                                                        *)
(*                                                                         *)
(* Units are kept in thousandths (1.0 unit = 1000), so that the two        *)
(* decimal rounding of _get_remaining_units is a computation.  The clock   *)
(* runs in half seconds, so that int(timestamp) is a computation.          *)
(***************************************************************************)
EXTENDS Integers, Sequences, FiniteSets, TLC

VARIABLES
    disk,                 \* the rows of Appointments.csv (APPTS_FILE)
    opened,               \* opened[s]: CalendarApp s has been constructed
    appts_df,             \* appts_df[s]: self.appts_df of CalendarApp s
    selected_doctor_id,   \* selected_doctor_id[s]: self.selected_doctor_id
    day_buttons,          \* day_buttons[s]: the day buttons of CalendarApp s
    on_confirm,           \* on_confirm[s]: self.on_confirm of CalendarApp s
    now,                  \* datetime.now(), in half seconds
    last,                 \* what the most recent _try_book call did
    last_appointment_minutes,  \* [a]: HospitalApp.last_appointment_minutes
    last_appointment_date,     \* [a]: HospitalApp.last_appointment_date
    patient,              \* patient[a]: HospitalApp.patient
    billing,              \* billing[a]: the BillingScreen of copy a
    billing_csv           \* the records of Billing.csv

\* The state of the calendar windows and of the file.
calendar == <<disk, opened, appts_df, selected_doctor_id, day_buttons,
              on_confirm>>
\* The state of the main application (one per running copy).
\* What on_appointment_confirmed records, and the patient and the screen.
Confirmed == <<last_appointment_minutes, last_appointment_date>>
screens == <<patient, billing, billing_csv>>
hospital == <<Confirmed, screens>>

vars == <<calendar, now, last, hospital>>

---------------------------------------------------------------------------
(* Bounds of the model *)

\* No in-memory ledger grows beyond MaxAppts rows.
MaxAppts == 3
\* The clock stops at MaxClock half seconds.
MaxClock == 2
\* The records Billing.csv holds at most.
MaxBills == 2

---------------------------------------------------------------------------
(* Configuration: Calendar.py, "Config" *)

MONTH == 12
YEAR == 2025
\* Half seconds per second: int(datetime.now().timestamp()) drops the fraction.
TicksPerSecond == 2
\* Thousandths per unit.
Milli == 1000

\* The mapping with the costs of 45 and 60 minutes exchanged.
DURATION_TO_UNITS_Swapped == (30 :> 1000) @@ (45 :> 2000) @@ (60 :> 1500)

\* DURATION_TO_UNITS = {30: 1.0, 45: 1.5, 60: 2.0}
DURATION_TO_UNITS == [m \in {30, 45, 60} |-> CASE m = 30 -> 1000
                                               [] m = 45 -> 1500
                                               [] m = 60 -> 2000]

None == "None"
\* self.last_appointment_minutes = None and self.last_appointment_date = None,
\* written as a number and a date that are no appointment's.
NoMinutes == 0
NoDate == [year |-> 0, month |-> 0, day |-> 0]
Sessions == {1, 2}
Doctors == {"D1", "D2"}
\* Days of the month a request is made for.
Days == {10, 11}
\* The durations a request is made with; 20 is not a key of DURATION_TO_UNITS.
Durations == {20, 30, 45, 60}

\* date(YEAR, MONTH, day)
Date(day) == [year |-> YEAR, month |-> MONTH, day |-> day]

\* d.isoformat(): the text "YYYY-MM-DD", as its three fields
IsoFormat(d) == <<d.year, d.month, d.day>>

\* pd.to_datetime(text).dt.date
ToDate(t) == [year |-> t[1], month |-> t[2], day |-> t[3]]

---------------------------------------------------------------------------
(* Availability: load_availability().  The table is read once per session  *)
(* and never written.  DailyCapacityUnits is the number in the CSV, in     *)
(* thousandths.                                                            *)

availability_df == <<
    [DoctorID |-> "D1", Date |-> Date(10), IsAvailable |-> TRUE,
     DailyCapacityUnits |-> 2000],
    [DoctorID |-> "D1", Date |-> Date(11), IsAvailable |-> FALSE,
     DailyCapacityUnits |-> 3000],
    [DoctorID |-> "D2", Date |-> Date(10), IsAvailable |-> TRUE,
     DailyCapacityUnits |-> 3000] >>

\* availability_df[(DoctorID == doctor_id) & (Date == the_date)]
AvailRows(doctor_id, the_date) ==
    SelectSeq(availability_df,
              LAMBDA r : r.DoctorID = doctor_id /\ r.Date = the_date)

\* int(row["DailyCapacityUnits"])
IntOf(x) == (x \div Milli) * Milli

---------------------------------------------------------------------------
(* The appointments file *)

\* save_appointments(df): the dates are written as ISO text
SaveRow(r) == [r EXCEPT !.AppointmentDate = IsoFormat(r.AppointmentDate)]
save_appointments(df) == [i \in 1..Len(df) |-> SaveRow(df[i])]

\* load_appointments(): the dates are parsed back
LoadRow(r) == [r EXCEPT !.AppointmentDate = ToDate(r.AppointmentDate)]
load_appointments == [i \in 1..Len(disk) |-> LoadRow(disk[i])]

\* str.lower() of the Status values in use
Lower(s) == IF s \in {"Booked", "BOOKED"} THEN "booked"
            ELSE IF s = "Cancelled" THEN "cancelled" ELSE s

RECURSIVE SumUnits(_)
SumUnits(rows) == IF rows = <<>> THEN 0
                  ELSE Head(rows).Units + SumUnits(Tail(rows))

\* round(x, 2), x in thousandths: to the nearest hundredth, a tie to the even one
Round2(x) ==
    LET q == x \div 10
        r == x % 10
    IN  IF r < 5 THEN q * 10
        ELSE IF r > 5 THEN (q + 1) * 10
        ELSE IF q % 2 = 0 THEN q * 10 ELSE (q + 1) * 10

Max(a, b) == IF a >= b THEN a ELSE b

\* The filter of _get_remaining_units without the test of Status.
SameDay_AnyStatus(df, doctor_id, the_date) ==
    SelectSeq(df, LAMBDA r : /\ r.DoctorID = doctor_id
                             /\ r.AppointmentDate = the_date)

\* The rows of df that count against the day of doctor_id
SameDay(df, doctor_id, the_date) ==
    SelectSeq(df, LAMBDA r : /\ r.DoctorID = doctor_id
                             /\ r.AppointmentDate = the_date
                             /\ Lower(r.Status) = "booked")

\* used = same_day["Units"].sum() if not same_day.empty else 0.0
UsedIn(df, doctor_id, the_date) ==
    LET same_day == SameDay(df, doctor_id, the_date)
    IN  IF same_day # <<>> THEN SumUnits(same_day) ELSE 0

\* _get_remaining_units returning round(remaining, 2) without max(0.0, ...).
RemainingIn_NoClamp(df, doctor_id, the_date, daily_units) ==
    LET used == UsedIn(df, doctor_id, the_date)
        remaining == daily_units - used
    IN  Round2(remaining)

\* CalendarApp._get_remaining_units on the ledger df
RemainingIn(df, doctor_id, the_date, daily_units) ==
    LET used == UsedIn(df, doctor_id, the_date)
        remaining == daily_units - used
    IN  Max(0, Round2(remaining))

\* Variant: the remaining units are taken from the day's budget alone.
get_remaining_units_NoLedger(s, doctor_id, the_date, daily_units) ==
    Max(0, Round2(daily_units))

\* CalendarApp._get_remaining_units of session s
_get_remaining_units(s, doctor_id, the_date, daily_units) ==
    RemainingIn(appts_df[s], doctor_id, the_date, daily_units)

\* _get_day_info without the test of IsAvailable.
DayInfo_ClosedOffered(df, doctor_id, the_date) ==
    LET rows == AvailRows(doctor_id, the_date)
        row == rows[1]
        daily_units == IntOf(row.DailyCapacityUnits)
        remaining_units == RemainingIn(df, doctor_id, the_date, daily_units)
    IN  IF rows = <<>>
        THEN [clickable |-> FALSE, tooltip |-> <<"Unavailable: No data", 0>>]
        ELSE IF remaining_units <= 0
        THEN [clickable |-> FALSE, tooltip |-> <<"Unavailable: Fully booked", 0>>]
        ELSE [clickable |-> TRUE,
              tooltip |-> <<"Available: units left", remaining_units>>]

\* CalendarApp._get_day_info on the ledger df.  The tooltip is kept as its
\* kind and, for an available day, the units it shows.
DayInfo(df, doctor_id, the_date) ==
    LET rows == AvailRows(doctor_id, the_date)
        row == rows[1]
        is_available == row.IsAvailable
        daily_units == IntOf(row.DailyCapacityUnits)
        remaining_units == RemainingIn(df, doctor_id, the_date, daily_units)
    IN  IF rows = <<>>
        THEN [clickable |-> FALSE, tooltip |-> <<"Unavailable: No data", 0>>]
        ELSE IF ~is_available
        THEN [clickable |-> FALSE,
              tooltip |-> <<"Unavailable: Not a clinic day", 0>>]
        ELSE IF remaining_units <= 0
        THEN [clickable |-> FALSE, tooltip |-> <<"Unavailable: Fully booked", 0>>]
        ELSE [clickable |-> TRUE,
              tooltip |-> <<"Available: units left", remaining_units>>]

\* CalendarApp._get_day_info of session s
_get_day_info(s, doctor_id, the_date) == DayInfo(appts_df[s], doctor_id, the_date)

\* The day buttons as _build_ui creates them.
BuiltButtons == [day \in Days |-> [state |-> "disabled", tooltip |-> <<"", 0>>]]

\* CalendarApp._render_month on the ledger df: the buttons it leaves
RenderMonth(buttons, df, doctor_id) ==
    IF doctor_id = None THEN buttons
    ELSE [day \in Days |->
             LET info == DayInfo(df, doctor_id, Date(day))
             IN  [state |-> IF info.clickable THEN "normal" ELSE "disabled",
                  tooltip |-> info.tooltip]]

---------------------------------------------------------------------------
(* Billing: the tables BillingScreen loads and the estimate recalc makes.  *)
(* Money is in cents, the time multiplier in tenths, the discount in       *)
(* percent.                                                                *)

Cents == 100
Tenths == 10

\* A number in a CSV cell, or a text float() does not accept.
Num(v) == [numeric |-> TRUE, value |-> v]
NotANumber == [numeric |-> FALSE, value |-> 0]

\* float(text), 0.0 when it raises
FloatOr0(cell) == IF cell.numeric THEN cell.value ELSE 0

\* The rows of Doctor_Fees.csv
Doctor_Fees == <<
    [Specialty |-> "Cardiology", BaseFee |-> Num(200 * Cents)],
    [Specialty |-> " Neurology", BaseFee |-> NotANumber],
    [Specialty |-> "Pediatrics", BaseFee |-> Num(150 * Cents)] >>

\* The rows of Insurance_Companies.csv; the last one has no InsuranceID.
Insurance_Companies == <<
    [InsuranceID |-> "INS1", DiscountPercent |-> Num(20)],
    [InsuranceID |-> "INS2 ", DiscountPercent |-> NotANumber],
    [InsuranceID |-> "INS3", DiscountPercent |-> Num(50)],
    [InsuranceID |-> "", DiscountPercent |-> Num(10)] >>

\* str.strip() of the texts in use
Strip(s) == CASE s = " cardiology " -> "cardiology"
              [] s = " Neurology" -> "Neurology"
              [] s = "INS2 " -> "INS2"
              [] s = " INS1 " -> "INS1"
              [] s = "  " -> ""
              [] OTHER -> s

\* str.lower() of the specialties in use
LowerCase(s) == CASE s = "Cardiology" -> "cardiology"
                  [] s = "Neurology" -> "neurology"
                  [] s = "Pediatrics" -> "pediatrics"
                  [] s = "Dermatology" -> "dermatology"
                  [] s = "CARDIOLOGY" -> "cardiology"
                  [] OTHER -> s

\* The dict a loader builds from the keys and the values of the rows: a
\* later row replaces an earlier one of its key.
DictOf(keys, values) ==
    [k \in {keys[i] : i \in DOMAIN keys} |->
        LET i == CHOOSE i \in DOMAIN keys :
                     /\ keys[i] = k
                     /\ \A j \in DOMAIN keys : keys[j] = k => j <= i
        IN  values[i]]

\* load_insurance_discount_map("Insurance_Companies.csv")
load_insurance_discount_map ==
    DictOf([i \in DOMAIN Insurance_Companies |->
                Strip(Insurance_Companies[i].InsuranceID)],
           [i \in DOMAIN Insurance_Companies |->
                FloatOr0(Insurance_Companies[i].DiscountPercent)])

\* load_doctor_fee_map("Doctor_Fees.csv")
load_doctor_fee_map ==
    DictOf([i \in DOMAIN Doctor_Fees |->
                LowerCase(Strip(Doctor_Fees[i].Specialty))],
           [i \in DOMAIN Doctor_Fees |-> FloatOr0(Doctor_Fees[i].BaseFee)])

\* d.get(key, default)
DictGet(d, key, default) == IF key \in DOMAIN d THEN d[key] ELSE default

\* self.time_mult = {30: 1.5, 45: 2.0, 60: 2.5}
time_mult == (30 :> 15) @@ (45 :> 20) @@ (60 :> 25)

\* The doctors a billing screen is opened for: doctor_info.get("Specialty")
\* is a text of the doctors file, or None when the key is missing.
Specialties == {"Cardiology", " cardiology ", "CARDIOLOGY", "Neurology",
                "Pediatrics", "Dermatology", "", None}
\* The doctors of the doctors file: the cardiologists are Dr A, the
\* neurologist and the paediatrician Dr B, the others Dr X.
NameOf(sp) ==
    IF sp \in {"Cardiology", " cardiology ", "CARDIOLOGY"} THEN "Dr A"
    ELSE IF sp \in {"Neurology", "Pediatrics"} THEN "Dr B"
    ELSE "Dr X"
DoctorInfos == {[Name |-> NameOf(sp), Specialty |-> sp] : sp \in Specialties}

\* load_doctor_names(): DoctorID -> Name of Doctors.csv
doctor_names == [did \in Doctors |-> IF did = "D1" THEN "Dr A" ELSE "Dr B"]

\* The doctor context of CalendarApp.__init__: doctor_info has no DoctorID,
\* the id is the one whose name in Doctors.csv is the name of the screen.
ResolveDoctor(doctor) ==
    IF \E did \in Doctors : doctor_names[did] = doctor.Name
    THEN CHOOSE did \in Doctors : doctor_names[did] = doctor.Name
    ELSE None

\* patient.insurance as the patients file or the information screen set it
Insurances == {None, "", "  ", "INS1", " INS1 ", "INS2", "INS3", "INS9"}

\* x or ""
OrEmpty(x) == IF x = None THEN "" ELSE x

\* discount_pct of recalc without the test of ins_id.
DiscountPct_NoGuard(ins_disc_map, insurance) ==
    LET ins_id == IF OrEmpty(insurance) # "" THEN Strip(insurance) ELSE ""
    IN  DictGet(ins_disc_map, ins_id, 0)

\* ins_id and discount_pct of recalc
DiscountPct(ins_disc_map, insurance) ==
    LET ins_id == IF OrEmpty(insurance) # "" THEN Strip(insurance) ELSE ""
    IN  IF ins_id # "" THEN DictGet(ins_disc_map, ins_id, 0) ELSE 0

\* The estimate with the discount added to the gross cost.
Estimate_DiscountAdded(doc_fee_map, ins_disc_map, doctor_info, insurance, minutes) ==
    LET specialty_key == LowerCase(Strip(OrEmpty(doctor_info.Specialty)))
        base_fee == DictGet(doc_fee_map, specialty_key, 0)
        mins == IF minutes \notin {30, 45, 60} THEN 30 ELSE minutes
        mult == DictGet(time_mult, mins, Tenths)
        gross == (base_fee * mult) \div Tenths
        discount_pct == DiscountPct(ins_disc_map, insurance)
        discount_amt == (gross * discount_pct) \div 100
        net == gross + discount_amt
    IN  [base_fee |-> base_fee, mins |-> mins, mult |-> mult, gross |-> gross,
         discount_pct |-> discount_pct, discount_amt |-> discount_amt,
         net |-> net]

\* The estimate with a fee that grows with the number of appointments in
\* the file.
Estimate_CountsAppointments(doc_fee_map, ins_disc_map, doctor_info, insurance, minutes) ==
    LET specialty_key == LowerCase(Strip(OrEmpty(doctor_info.Specialty)))
        base_fee == DictGet(doc_fee_map, specialty_key, 0) + Len(disk) * Cents
        mins == IF minutes \notin {30, 45, 60} THEN 30 ELSE minutes
        mult == DictGet(time_mult, mins, Tenths)
        gross == (base_fee * mult) \div Tenths
        discount_pct == DiscountPct(ins_disc_map, insurance)
        discount_amt == (gross * discount_pct) \div 100
        net == gross - discount_amt
    IN  [base_fee |-> base_fee, mins |-> mins, mult |-> mult, gross |-> gross,
         discount_pct |-> discount_pct, discount_amt |-> discount_amt,
         net |-> net]

\* The estimate without the replacement of a duration outside 30, 45, 60.
Estimate_NoDefault(doc_fee_map, ins_disc_map, doctor_info, insurance, minutes) ==
    LET specialty_key == LowerCase(Strip(OrEmpty(doctor_info.Specialty)))
        base_fee == DictGet(doc_fee_map, specialty_key, 0)
        mins == minutes
        mult == DictGet(time_mult, mins, Tenths)
        gross == (base_fee * mult) \div Tenths
        discount_pct == DiscountPct(ins_disc_map, insurance)
        discount_amt == (gross * discount_pct) \div 100
        net == gross - discount_amt
    IN  [base_fee |-> base_fee, mins |-> mins, mult |-> mult, gross |-> gross,
         discount_pct |-> discount_pct, discount_amt |-> discount_amt,
         net |-> net]

\* BillingScreen.recalc: the numbers it computes and shows
Estimate(doc_fee_map, ins_disc_map, doctor_info, insurance, minutes) ==
    LET specialty_key == LowerCase(Strip(OrEmpty(doctor_info.Specialty)))
        base_fee == DictGet(doc_fee_map, specialty_key, 0)
        mins == IF minutes \notin {30, 45, 60} THEN 30 ELSE minutes
        mult == DictGet(time_mult, mins, Tenths)
        gross == (base_fee * mult) \div Tenths
        discount_pct == DiscountPct(ins_disc_map, insurance)
        discount_amt == (gross * discount_pct) \div 100
        net == gross - discount_amt
    IN  [base_fee |-> base_fee, mins |-> mins, mult |-> mult, gross |-> gross,
         discount_pct |-> discount_pct, discount_amt |-> discount_amt,
         net |-> net]

NoEstimate == [base_fee |-> 0, mins |-> 0, mult |-> 0, gross |-> 0,
               discount_pct |-> 0, discount_amt |-> 0, net |-> 0]

\* No BillingScreen is the current frame.
NoBilling == [shown |-> FALSE, doctor_info |-> [Name |-> "", Specialty |-> ""],
              ins_disc_map |-> <<>>, doc_fee_map |-> <<>>,
              saved_once |-> FALSE, last_net_cost |-> 0,
              result_var |-> NoEstimate]

---------------------------------------------------------------------------
(* Initial state *)

\* Rows written by earlier runs of the application, before the clock starts.
OldRow(doctor, day, minutes, status) ==
    [AppointmentID |-> -1, DoctorID |-> doctor,
     AppointmentDate |-> IsoFormat(Date(day)), DurationMinutes |-> minutes,
     Units |-> DURATION_TO_UNITS[minutes], Status |-> status]

InitLedgers == { <<>>,
                 << OldRow("D1", 10, 30, "Booked") >>,
                 << OldRow("D2", 10, 45, "Cancelled") >> }

NoCall == [session |-> 0, date |-> None, duration |-> 0, result |-> "None",
           saved |-> FALSE, confirms |-> <<>>, events |-> <<>>]

Init ==
    /\ disk \in InitLedgers
    /\ opened = [s \in Sessions |-> FALSE]
    /\ appts_df = [s \in Sessions |-> <<>>]
    /\ selected_doctor_id = [s \in Sessions |-> None]
    /\ day_buttons = [s \in Sessions |-> BuiltButtons]
    /\ on_confirm = [s \in Sessions |-> None]
    /\ now = 0
    /\ last = NoCall
    /\ last_appointment_minutes = [a \in Sessions |-> NoMinutes]
    /\ last_appointment_date = [a \in Sessions |-> NoDate]
    /\ patient = [a \in Sessions |-> [insurance |-> None]]
    /\ billing = [a \in Sessions |-> NoBilling]
    /\ billing_csv = <<>>

---------------------------------------------------------------------------
(* Operations *)

\* CalendarApp.__init__: the ledger is loaded, the doctor is resolved
\* (doctor = None when the GUI's doctor has no id and no matching name).
CalendarApp_init(s, doctor, callback) ==
    /\ ~opened[s]
    /\ opened' = [opened EXCEPT ![s] = TRUE]
    /\ appts_df' = [appts_df EXCEPT ![s] = load_appointments]
    /\ selected_doctor_id' = [selected_doctor_id EXCEPT ![s] = doctor]
    /\ on_confirm' = [on_confirm EXCEPT ![s] = callback]
    /\ day_buttons' = [day_buttons EXCEPT ![s] =
                           RenderMonth(BuiltButtons, load_appointments, doctor)]
    /\ UNCHANGED <<disk, now, last, hospital>>

\* The calendar as HospitalApp.show_calendar_screen constructs it:
\* CalendarApp(..., on_confirm=self.on_appointment_confirmed)
OpenCalendar(s, doctor) ==
    CalendarApp_init(s, doctor, "on_appointment_confirmed")

\* Variant: a request that needs exactly what is left is refused.
Decision_ExactFitRefused(s, the_date, duration_minutes) ==
    LET rows == AvailRows(selected_doctor_id[s], the_date)
        row == rows[1]
        units_needed == DURATION_TO_UNITS[duration_minutes]
        daily_units == IntOf(row.DailyCapacityUnits)
        remaining == _get_remaining_units(s, selected_doctor_id[s], the_date,
                                          daily_units)
    IN  IF selected_doctor_id[s] = None THEN "NoDoctor"
        ELSE IF rows = <<>> THEN "Unavailable"
        ELSE IF ~row.IsAvailable THEN "Unavailable"
        ELSE IF duration_minutes \notin DOMAIN DURATION_TO_UNITS
             THEN "InvalidDuration"
        ELSE IF remaining <= units_needed THEN "InsufficientCapacity"
        ELSE "Validated"

\* Variant: a full day is reported before the duration is looked at.
Decision_CapacityFirst(s, the_date, duration_minutes) ==
    LET rows == AvailRows(selected_doctor_id[s], the_date)
        row == rows[1]
        units_needed == DURATION_TO_UNITS[duration_minutes]
        daily_units == IntOf(row.DailyCapacityUnits)
        remaining == _get_remaining_units(s, selected_doctor_id[s], the_date,
                                          daily_units)
    IN  IF selected_doctor_id[s] = None THEN "NoDoctor"
        ELSE IF rows = <<>> THEN "Unavailable"
        ELSE IF ~row.IsAvailable THEN "Unavailable"
        ELSE IF remaining <= 0 THEN "InsufficientCapacity"
        ELSE IF duration_minutes \notin DOMAIN DURATION_TO_UNITS
             THEN "InvalidDuration"
        ELSE IF remaining < units_needed THEN "InsufficientCapacity"
        ELSE "Validated"

\* Variant: the duration is checked first.
Decision_DurationFirst(s, the_date, duration_minutes) ==
    LET rows == AvailRows(selected_doctor_id[s], the_date)
        row == rows[1]
        units_needed == DURATION_TO_UNITS[duration_minutes]
        daily_units == IntOf(row.DailyCapacityUnits)
        remaining == _get_remaining_units(s, selected_doctor_id[s], the_date,
                                          daily_units)
    IN  IF duration_minutes \notin DOMAIN DURATION_TO_UNITS
             THEN "InvalidDuration"
        ELSE IF selected_doctor_id[s] = None THEN "NoDoctor"
        ELSE IF rows = <<>> THEN "Unavailable"
        ELSE IF ~row.IsAvailable THEN "Unavailable"
        ELSE IF remaining < units_needed THEN "InsufficientCapacity"
        ELSE "Validated"

\* Variant: the IsAvailable flag of the record is not looked at.
Decision_FlagIgnored(s, the_date, duration_minutes) ==
    LET rows == AvailRows(selected_doctor_id[s], the_date)
        row == rows[1]
        units_needed == DURATION_TO_UNITS[duration_minutes]
        daily_units == IntOf(row.DailyCapacityUnits)
        remaining == _get_remaining_units(s, selected_doctor_id[s], the_date,
                                          daily_units)
    IN  IF selected_doctor_id[s] = None THEN "NoDoctor"
        ELSE IF rows = <<>> THEN "Unavailable"
        ELSE IF duration_minutes \notin DOMAIN DURATION_TO_UNITS
             THEN "InvalidDuration"
        ELSE IF remaining < units_needed THEN "InsufficientCapacity"
        ELSE "Validated"

\* The checks of _try_book, in the order of the code: the reason of the first
\* check that fails, "Validated" when all pass.
Decision(s, the_date, duration_minutes) ==
    LET rows == AvailRows(selected_doctor_id[s], the_date)
        row == rows[1]
        units_needed == DURATION_TO_UNITS[duration_minutes]
        daily_units == IntOf(row.DailyCapacityUnits)
        remaining == _get_remaining_units(s, selected_doctor_id[s], the_date,
                                          daily_units)
    IN  IF selected_doctor_id[s] = None THEN "NoDoctor"
        ELSE IF rows = <<>> THEN "Unavailable"
        ELSE IF ~row.IsAvailable THEN "Unavailable"
        ELSE IF duration_minutes \notin DOMAIN DURATION_TO_UNITS
             THEN "InvalidDuration"
        ELSE IF remaining < units_needed THEN "InsufficientCapacity"
        ELSE "Validated"

\* appt_id = f"A-{int(datetime.now().timestamp())}"
NewAppointmentID == now \div TicksPerSecond

\* Variant: every appointment is entered with the units of 30 minutes.
NewRow_OneUnit(s, the_date, duration_minutes) ==
    [AppointmentID |-> NewAppointmentID,
     DoctorID |-> selected_doctor_id[s],
     AppointmentDate |-> the_date,
     DurationMinutes |-> duration_minutes,
     Units |-> DURATION_TO_UNITS[30],
     Status |-> "Booked"]

\* new_row of _try_book
NewRow(s, the_date, duration_minutes) ==
    [AppointmentID |-> NewAppointmentID,
     DoctorID |-> selected_doctor_id[s],
     AppointmentDate |-> the_date,
     DurationMinutes |-> duration_minutes,
     Units |-> DURATION_TO_UNITS[duration_minutes],
     Status |-> "Booked"]

\* pd.concat with the new row first.
Concat_Front(df, new_row) == <<new_row>> \o df

\* pd.concat([self.appts_df, new_row]), then the date column is coerced again
Concat(df, new_row) ==
    LET all == Append(df, new_row)
    IN  [i \in 1..Len(all) |->
            [all[i] EXCEPT !.AppointmentDate =
                               ToDate(IsoFormat(all[i].AppointmentDate))]]

\* Variant: a rejected request writes the ledger of the session to the file.
Reject_Saves(s, the_date, duration_minutes, reason) ==
    /\ last' = [session |-> s, date |-> the_date, duration |-> duration_minutes,
                result |-> reason, saved |-> FALSE, confirms |-> <<>>,
                events |-> <<"message">>]
    /\ disk' = save_appointments(appts_df[s])
    /\ UNCHANGED <<opened, appts_df, selected_doctor_id, day_buttons,
                   on_confirm, now, hospital>>

\* The call of a rejected request: nothing but the message box.
Reject(s, the_date, duration_minutes, reason) ==
    /\ last' = [session |-> s, date |-> the_date, duration |-> duration_minutes,
                result |-> reason, saved |-> FALSE, confirms |-> <<>>,
                events |-> <<"message">>]
    /\ UNCHANGED <<calendar, now, hospital>>

\* HospitalApp.on_appointment_confirmed(minutes, appt_date) of copy a
on_appointment_confirmed(a, minutes, appt_date) ==
    /\ last_appointment_minutes' = [last_appointment_minutes EXCEPT ![a] = minutes]
    /\ last_appointment_date' = [last_appointment_date EXCEPT ![a] = appt_date]
    /\ UNCHANGED screens

\* Commit with on_confirm called before save_appointments.
Commit_NotifyBeforeSave(s, the_date, duration_minutes, save_ok) ==
    LET df == Concat(appts_df[s], NewRow(s, the_date, duration_minutes))
    IN  /\ appts_df' = [appts_df EXCEPT ![s] = df]
        /\ on_appointment_confirmed(s, duration_minutes, the_date)
        /\ IF save_ok
           THEN /\ disk' = save_appointments(df)
                /\ day_buttons' = [day_buttons EXCEPT ![s] =
                       RenderMonth(day_buttons[s], df, selected_doctor_id[s])]
                /\ last' = [session |-> s, date |-> the_date,
                            duration |-> duration_minutes,
                            result |-> "Committed", saved |-> TRUE,
                            confirms |-> << <<duration_minutes, the_date>> >>,
                            events |-> <<"concat", "on_confirm", "save",
                                         "message", "render">>]
           ELSE /\ disk' = disk
                /\ UNCHANGED day_buttons
                /\ last' = [session |-> s, date |-> the_date,
                            duration |-> duration_minutes,
                            result |-> "PersistenceError", saved |-> FALSE,
                            confirms |-> << <<duration_minutes, the_date>> >>,
                            events |-> <<"concat", "on_confirm", "save raises">>]
        /\ UNCHANGED <<opened, selected_doctor_id, on_confirm, now>>

\* The callbacks a CalendarApp is constructed with: none, the application's
\* on_appointment_confirmed, or a callable that raises when it is called.
Callbacks == {None, "on_appointment_confirmed", "raises"}

\* Commit in which the exception of on_confirm leaves _try_book: the message
\* and _render_month are skipped.
Commit_ConfirmPropagates(s, the_date, duration_minutes, save_ok) ==
    LET df == Concat(appts_df[s], NewRow(s, the_date, duration_minutes))
        called == on_confirm[s] # None
        raised == on_confirm[s] = "raises"
    IN  /\ appts_df' = [appts_df EXCEPT ![s] = df]
        /\ IF save_ok
           THEN /\ last' = [session |-> s, date |-> the_date,
                            duration |-> duration_minutes,
                            result |-> IF raised THEN "CallbackError"
                                       ELSE "Committed",
                            saved |-> TRUE,
                            confirms |-> IF called
                                         THEN << <<duration_minutes, the_date>> >>
                                         ELSE <<>>,
                            events |-> IF raised
                                       THEN <<"concat", "save", "on_confirm raises">>
                                       ELSE IF called
                                       THEN <<"concat", "save", "on_confirm",
                                              "message", "render">>
                                       ELSE <<"concat", "save", "message",
                                              "render">>]
                /\ disk' = save_appointments(df)
                /\ IF on_confirm[s] = "on_appointment_confirmed"
                   THEN on_appointment_confirmed(s, duration_minutes, the_date)
                   ELSE UNCHANGED hospital
                /\ day_buttons' = [day_buttons EXCEPT ![s] =
                       IF raised THEN day_buttons[s]
                       ELSE RenderMonth(day_buttons[s], df,
                                        selected_doctor_id[s])]
           ELSE /\ disk' = disk
                /\ UNCHANGED <<day_buttons, hospital>>
                /\ last' = [session |-> s, date |-> the_date,
                            duration |-> duration_minutes,
                            result |-> "PersistenceError", saved |-> FALSE,
                            confirms |-> <<>>,
                            events |-> <<"concat", "save raises">>]
        /\ UNCHANGED <<opened, selected_doctor_id, on_confirm, now>>

\* The call of a validated request: the row is added to self.appts_df and the
\* file is written.  save_ok: the write succeeds, on_confirm is called when it
\* is callable (an exception it raises is printed and dropped), the message
\* is shown and the month is rendered again; otherwise to_csv raises, the
\* file stays as it was and the exception leaves _try_book.
Commit(s, the_date, duration_minutes, save_ok) ==
    LET df == Concat(appts_df[s], NewRow(s, the_date, duration_minutes))
        called == on_confirm[s] # None
        raised == on_confirm[s] = "raises"
    IN  /\ appts_df' = [appts_df EXCEPT ![s] = df]
        /\ IF save_ok
           THEN /\ last' = [session |-> s, date |-> the_date,
                            duration |-> duration_minutes,
                            result |-> "Committed", saved |-> TRUE,
                            confirms |-> IF called
                                         THEN << <<duration_minutes, the_date>> >>
                                         ELSE <<>>,
                            events |-> IF raised
                                       THEN <<"concat", "save",
                                              "on_confirm raises", "message",
                                              "render">>
                                       ELSE IF called
                                       THEN <<"concat", "save", "on_confirm",
                                              "message", "render">>
                                       ELSE <<"concat", "save", "message",
                                              "render">>]
                /\ disk' = save_appointments(df)
                /\ IF on_confirm[s] = "on_appointment_confirmed"
                   THEN on_appointment_confirmed(s, duration_minutes, the_date)
                   ELSE UNCHANGED hospital
                /\ day_buttons' = [day_buttons EXCEPT ![s] =
                       RenderMonth(day_buttons[s], df, selected_doctor_id[s])]
           ELSE /\ disk' = disk
                /\ UNCHANGED <<day_buttons, hospital>>
                /\ last' = [session |-> s, date |-> the_date,
                            duration |-> duration_minutes,
                            result |-> "PersistenceError", saved |-> FALSE,
                            confirms |-> <<>>,
                            events |-> <<"concat", "save raises">>]
        /\ UNCHANGED <<opened, selected_doctor_id, on_confirm, now>>

\* _try_book without the return after the message "Not enough capacity".
try_book_NoReturn(s, the_date, duration_minutes, save_ok) ==
    /\ opened[s]
    /\ Len(appts_df[s]) < MaxAppts
    /\ LET d == Decision(s, the_date, duration_minutes)
       IN  IF d \in {"Validated", "InsufficientCapacity"}
           THEN Commit(s, the_date, duration_minutes, save_ok)
           ELSE /\ save_ok
                /\ Reject(s, the_date, duration_minutes, d)

\* CalendarApp._try_book(dialog, the_date, duration_minutes)
_try_book(s, the_date, duration_minutes, save_ok) ==
    /\ opened[s]
    /\ Len(appts_df[s]) < MaxAppts
    /\ LET d == Decision(s, the_date, duration_minutes)
       IN  IF d = "Validated"
           THEN Commit(s, the_date, duration_minutes, save_ok)
           ELSE /\ save_ok
                /\ Reject(s, the_date, duration_minutes, d)

\* The window is closed (Toplevel.destroy); the next one is a new CalendarApp.
CloseCalendar(s) ==
    /\ opened[s]
    /\ opened' = [opened EXCEPT ![s] = FALSE]
    /\ appts_df' = [appts_df EXCEPT ![s] = <<>>]
    /\ selected_doctor_id' = [selected_doctor_id EXCEPT ![s] = None]
    /\ day_buttons' = [day_buttons EXCEPT ![s] = BuiltButtons]
    /\ on_confirm' = [on_confirm EXCEPT ![s] = None]
    /\ UNCHANGED <<disk, now, last, hospital>>

\* Time passes.
Tick ==
    /\ now < MaxClock
    /\ now' = now + 1
    /\ UNCHANGED <<calendar, last, hospital>>

\* One user, one calendar window at a time.
Next ==
    \/ \E doctor \in Doctors \cup {None} : OpenCalendar(1, doctor)
    \/ \E day \in Days, m \in Durations, save_ok \in BOOLEAN :
           _try_book(1, Date(day), m, save_ok)
    \/ CloseCalendar(1)
    \/ Tick

Spec == Init /\ [][Next]_vars

\* Two running copies of the application over the same appointments file.
NextTwo ==
    \/ \E s \in Sessions, doctor \in Doctors \cup {None} : OpenCalendar(s, doctor)
    \/ \E s \in Sessions, day \in Days, m \in Durations, save_ok \in BOOLEAN :
           _try_book(s, Date(day), m, save_ok)
    \/ Tick

SpecTwo == Init /\ [][NextTwo]_vars

---------------------------------------------------------------------------
(* The capacity arithmetic over the appointments files an earlier run or   *)
(* another program can have left: rows of any doctor, day and status,      *)
(* with Units that need not be 1.0, 1.5 or 2.0, and days that hold more    *)
(* Booked units than their budget.                                         *)

\* A row of Appointments.csv as pd.read_csv reads it.
FileRow(doctor, day, units, status) ==
    [AppointmentID |-> -1, DoctorID |-> doctor,
     AppointmentDate |-> IsoFormat(Date(day)), DurationMinutes |-> 60,
     Units |-> units, Status |-> status]

FileUnits == {2000, 1004}
FileStatuses == {"Booked", "BOOKED", "Cancelled"}
FileRows == {FileRow(r.DoctorID, r.Date.day, units, status) :
                 r \in {availability_df[i] : i \in DOMAIN availability_df},
                 units \in FileUnits, status \in FileStatuses}

\* The files of fewer than MaxAppts rows.
LedgerFiles ==
    UNION {[1..n -> FileRows] : n \in 0..(MaxAppts - 1)}

InitLedger ==
    /\ disk \in LedgerFiles
    /\ opened = [s \in Sessions |-> FALSE]
    /\ appts_df = [s \in Sessions |-> <<>>]
    /\ selected_doctor_id = [s \in Sessions |-> None]
    /\ day_buttons = [s \in Sessions |-> BuiltButtons]
    /\ on_confirm = [s \in Sessions |-> None]
    /\ now = 0
    /\ last = NoCall
    /\ last_appointment_minutes = [a \in Sessions |-> NoMinutes]
    /\ last_appointment_date = [a \in Sessions |-> NoDate]
    /\ patient = [a \in Sessions |-> [insurance |-> None]]
    /\ billing = [a \in Sessions |-> NoBilling]
    /\ billing_csv = <<>>

\* One calendar window is opened on the file and requests are made in it.
NextLedger ==
    \/ \E doctor \in Doctors \cup {None} : OpenCalendar(1, doctor)
    \/ \E day \in Days, m \in Durations, save_ok \in BOOLEAN :
           _try_book(1, Date(day), m, save_ok)

SpecLedger == InitLedger /\ [][NextLedger]_vars

---------------------------------------------------------------------------
(* The billing screen.  The calendar window is modal (grab_set), so the    *)
(* screens of the main window change only while it is closed.              *)

\* HospitalApp.show_calendar_screen(doctor_info), from the doctor details
show_calendar_screen(a, doctor_info) ==
    /\ ~billing[a].shown
    /\ OpenCalendar(a, ResolveDoctor(doctor_info))

\* recalc that makes the record of the visit savable again.
recalc_ResetsSaved(a) ==
    /\ ~opened[a]
    /\ billing[a].shown
    /\ LET e == Estimate(billing[a].doc_fee_map, billing[a].ins_disc_map,
                         billing[a].doctor_info, patient[a].insurance,
                         last_appointment_minutes[a])
       IN  billing' = [billing EXCEPT ![a].last_net_cost = e.net,
                                      ![a].result_var = e,
                                      ![a].saved_once = FALSE]
    /\ UNCHANGED <<calendar, now, last, Confirmed, patient, billing_csv>>

\* BillingScreen.recalc of copy a
recalc(a) ==
    /\ ~opened[a]
    /\ billing[a].shown
    /\ LET e == Estimate(billing[a].doc_fee_map, billing[a].ins_disc_map,
                         billing[a].doctor_info, patient[a].insurance,
                         last_appointment_minutes[a])
       IN  billing' = [billing EXCEPT ![a].last_net_cost = e.net,
                                      ![a].result_var = e]
    /\ UNCHANGED <<calendar, now, last, Confirmed, patient, billing_csv>>

\* BillingScreen.__init__(parent, app, doctor_info): the two tables are
\* loaded, saved_once is False, and recalc() is called at the end.
BillingScreen_init(a, doctor_info) ==
    /\ ~opened[a]
    /\ ~billing[a].shown
    /\ LET e == Estimate(load_doctor_fee_map, load_insurance_discount_map,
                         doctor_info, patient[a].insurance,
                         last_appointment_minutes[a])
       IN  billing' = [billing EXCEPT ![a] =
                          [shown |-> TRUE, doctor_info |-> doctor_info,
                           ins_disc_map |-> load_insurance_discount_map,
                           doc_fee_map |-> load_doctor_fee_map,
                           saved_once |-> FALSE, last_net_cost |-> e.net,
                           result_var |-> e]]
    /\ UNCHANGED <<calendar, now, last, Confirmed, patient, billing_csv>>

\* show_billing_screen without the test of the recorded appointment.
show_billing_screen_NoGuard(a, doctor_info) ==
    BillingScreen_init(a, doctor_info)

\* HospitalApp.show_billing_screen(doctor_info): without a confirmed
\* appointment a warning is shown and the screen stays; otherwise
\* switch_frame(BillingScreen, doctor_info).
show_billing_screen(a, doctor_info) ==
    IF last_appointment_minutes[a] \notin {30, 45, 60}
           \/ last_appointment_date[a] = NoDate
    THEN /\ ~opened[a]
         /\ ~billing[a].shown
         /\ UNCHANGED vars
    ELSE BillingScreen_init(a, doctor_info)

\* append_billing_record(...): the row added to Billing.csv.  last_net_cost
\* was rounded to cents by recalc, so "{:.2f}" writes exactly its cents.
BillingRecord(a) ==
    [PatientID |-> "P1", PatientName |-> "Pat",
     DoctorName |-> billing[a].doctor_info.Name,
     AppointmentDate |-> IF last_appointment_date[a] # NoDate
                         THEN IsoFormat(last_appointment_date[a]) ELSE <<>>,
     BillingCost |-> billing[a].last_net_cost,
     BilledAt |-> now \div TicksPerSecond]

\* BillingScreen.save_billing_once: after a saved record only a message is
\* shown; otherwise the record is appended and saved_once is set.  With
\* ~write_ok the append raises and nothing is set.
save_billing_once(a, write_ok) ==
    /\ ~opened[a]
    /\ billing[a].shown
    /\ IF billing[a].saved_once
       THEN write_ok /\ UNCHANGED vars
       ELSE /\ Len(billing_csv) < MaxBills
            /\ IF write_ok
               THEN /\ billing_csv' = Append(billing_csv, BillingRecord(a))
                    /\ billing' = [billing EXCEPT ![a].saved_once = TRUE]
               ELSE UNCHANGED <<billing_csv, billing>>
            /\ UNCHANGED <<calendar, now, last, Confirmed, patient>>

\* HospitalApp.show_doctor_details_screen: the billing screen is destroyed
show_doctor_details_screen(a) ==
    /\ ~opened[a]
    /\ billing[a].shown
    /\ billing' = [billing EXCEPT ![a] = NoBilling]
    /\ UNCHANGED <<calendar, now, last, Confirmed, patient, billing_csv>>

\* The patient of the copy, as the login loaded it.
InitBilling ==
    /\ disk = <<>>
    /\ opened = [s \in Sessions |-> FALSE]
    /\ appts_df = [s \in Sessions |-> <<>>]
    /\ selected_doctor_id = [s \in Sessions |-> None]
    /\ day_buttons = [s \in Sessions |-> BuiltButtons]
    /\ on_confirm = [s \in Sessions |-> None]
    /\ now = 0
    /\ last = NoCall
    /\ last_appointment_minutes = [a \in Sessions |-> NoMinutes]
    /\ last_appointment_date = [a \in Sessions |-> NoDate]
    /\ patient \in [Sessions -> {[insurance |-> i] : i \in Insurances}]
    /\ patient[2] = [insurance |-> None]
    /\ billing = [a \in Sessions |-> NoBilling]
    /\ billing_csv = <<>>

\* One user books appointments and opens the billing screen.
NextBilling ==
    \/ \E doctor_info \in DoctorInfos : show_calendar_screen(1, doctor_info)
    \/ \E day \in Days, m \in Durations, save_ok \in BOOLEAN :
           _try_book(1, Date(day), m, save_ok)
    \/ CloseCalendar(1)
    \/ \E doctor_info \in DoctorInfos : show_billing_screen(1, doctor_info)
    \/ recalc(1)
    \/ show_doctor_details_screen(1)

SpecBilling == InitBilling /\ [][NextBilling]_vars

---------------------------------------------------------------------------
(* The estimate of a BillingScreen for every value its inputs can take:    *)
(* the screen is constructed for an application whose recorded duration    *)
(* is unset, not a key of time_mult, or one of 30, 45 and 60.              *)

QuoteMinutes == {NoMinutes, 20, 30, 45, 60}

InitQuote ==
    /\ disk = <<>>
    /\ opened = [s \in Sessions |-> FALSE]
    /\ appts_df = [s \in Sessions |-> <<>>]
    /\ selected_doctor_id = [s \in Sessions |-> None]
    /\ day_buttons = [s \in Sessions |-> BuiltButtons]
    /\ on_confirm = [s \in Sessions |-> None]
    /\ now = 0
    /\ last = NoCall
    /\ last_appointment_minutes \in [Sessions -> QuoteMinutes]
    /\ last_appointment_minutes[2] = NoMinutes
    /\ last_appointment_date \in [Sessions -> {NoDate, Date(10)}]
    /\ last_appointment_date[2] = NoDate
    /\ patient \in [Sessions -> {[insurance |-> i] : i \in Insurances}]
    /\ patient[2] = [insurance |-> None]
    /\ billing = [a \in Sessions |-> NoBilling]
    /\ billing_csv = <<>>

NextQuote ==
    \/ \E doctor_info \in DoctorInfos : BillingScreen_init(1, doctor_info)
    \/ recalc(1)
    \/ show_doctor_details_screen(1)

SpecQuote == InitQuote /\ [][NextQuote]_vars

---------------------------------------------------------------------------
(* Saving the billing record.  The user has booked one appointment with    *)
(* doctor D1 on the 10th and closed the calendar; billing is then opened   *)
(* from the details screens, and the record is saved.                      *)

BookedOnce(m) == [AppointmentID |-> 0, DoctorID |-> "D1",
                  AppointmentDate |-> Date(10), DurationMinutes |-> m,
                  Units |-> DURATION_TO_UNITS[m], Status |-> "Booked"]

InitSave ==
    \E m \in {30, 45}, i \in {None, "INS1", "INS3"} :
        /\ disk = save_appointments(<<BookedOnce(m)>>)
        /\ opened = [s \in Sessions |-> FALSE]
        /\ appts_df = [s \in Sessions |-> <<>>]
        /\ selected_doctor_id = [s \in Sessions |-> None]
        /\ day_buttons = [s \in Sessions |-> BuiltButtons]
    /\ on_confirm = [s \in Sessions |-> None]
        /\ now = 0
        /\ last = [session |-> 1, date |-> Date(10), duration |-> m,
                   result |-> "Committed", saved |-> TRUE,
                   confirms |-> << <<m, Date(10)>> >>,
                   events |-> <<"concat", "save", "on_confirm",
                                "message", "render">>]
        /\ last_appointment_minutes = [a \in Sessions |->
                                          IF a = 1 THEN m ELSE NoMinutes]
        /\ last_appointment_date = [a \in Sessions |->
                                       IF a = 1 THEN Date(10) ELSE NoDate]
        /\ patient = [a \in Sessions |->
                         [insurance |-> IF a = 1 THEN i ELSE None]]
        /\ billing = [a \in Sessions |-> NoBilling]
        /\ billing_csv = <<>>

NextSave ==
    \/ \E doctor_info \in DoctorInfos : show_billing_screen(1, doctor_info)
    \/ recalc(1)
    \/ \E write_ok \in BOOLEAN : save_billing_once(1, write_ok)
    \/ show_doctor_details_screen(1)

SpecSave == InitSave /\ [][NextSave]_vars

---------------------------------------------------------------------------
(* The calendar constructed with any callback (CalendarApp's on_confirm    *)
(* parameter): one window, opened, used and closed, at one clock time.     *)

NextCallback ==
    \/ \E doctor \in Doctors \cup {None}, callback \in Callbacks :
           CalendarApp_init(1, doctor, callback)
    \/ \E day \in Days, m \in Durations, save_ok \in BOOLEAN :
           _try_book(1, Date(day), m, save_ok)
    \/ CloseCalendar(1)

SpecCallback == Init /\ [][NextCallback]_vars

---------------------------------------------------------------------------
(* Vocabulary of the properties *)

Rejections == {"NoDoctor", "Unavailable", "InvalidDuration",
               "InsufficientCapacity"}
ValidDurations == {30, 45, 60}

\* The unit cost of a duration, as the specification gives it (thousandths).
UnitCost(m) == IF m = 30 THEN 1000 ELSE IF m = 45 THEN 1500 ELSE 2000

\* (doctor, day) has an availability record.
HasRecord(doctor, day) ==
    \E i \in DOMAIN availability_df :
        /\ availability_df[i].DoctorID = doctor
        /\ availability_df[i].Date = Date(day)

RecordOf(doctor, day) ==
    availability_df[CHOOSE i \in DOMAIN availability_df :
                        /\ availability_df[i].DoctorID = doctor
                        /\ availability_df[i].Date = Date(day)]

\* The sum of Units over the Booked rows of a ledger for (doctor, day);
\* dateOf reads the date of a row (in memory a date, in the file ISO text).
BookedUnits(df, doctor, day, dateOf(_)) ==
    SumUnits(SelectSeq(df, LAMBDA r : /\ r.DoctorID = doctor
                                      /\ dateOf(r) = Date(day)
                                      /\ r.Status = "Booked"))

MemDate(r) == r.AppointmentDate
FileDate(r) == ToDate(r.AppointmentDate)

\* remainingUnits of (doctor, day) as session s computes it.
RemainingUnits(s, doctor, day) ==
    _get_remaining_units(s, doctor, Date(day),
                         IntOf(RecordOf(doctor, day).DailyCapacityUnits))

\* The step is the call _try_book(the_date, m) of session s (every call
\* records its arguments in last, which is compared first).
TryBookStep(s, day, m, save_ok) ==
    /\ last'.session = s
    /\ last'.duration = m
    /\ last'.date = Date(day)
    /\ _try_book(s, Date(day), m, save_ok)

---------------------------------------------------------------------------
(* C1  Capacity conservation: starting from a ledger that respects every    *)
(* day's budget, after any sequence of booking requests the sum of Units    *)
(* over the Booked appointments of each (doctorId, date) never exceeds     *)
(* that date's dailyCapacityUnits, in the ledger of the session and in the *)
(* appointments file.                                                      *)
CapacityConservation ==
    \A doctor \in Doctors, day \in Days :
        HasRecord(doctor, day) =>
            /\ BookedUnits(disk, doctor, day, FileDate)
                   <= RecordOf(doctor, day).DailyCapacityUnits
            /\ \A s \in Sessions :
                   BookedUnits(appts_df[s], doctor, day, MemDate)
                       <= RecordOf(doctor, day).DailyCapacityUnits

\* A day is booked up to its budget and a further request has been refused.
CapacityConservationWitness ==
    /\ last.result = "InsufficientCapacity"
    /\ opened[1]
    /\ BookedUnits(appts_df[1], "D2", 10, MemDate)
           = RecordOf("D2", 10).DailyCapacityUnits
    /\ Len(appts_df[1]) >= 2
    /\ disk = save_appointments(appts_df[1])

---------------------------------------------------------------------------
(* C2  Capacity decision: a request with a doctor set, an availability      *)
(* record with IsAvailable and a duration in {30,45,60} passes when the    *)
(* remaining units are at least the unit cost of the duration (the row is  *)
(* added with that cost, and the booking is committed when the file is     *)
(* written) and is rejected with InsufficientCapacity when they are less.  *)
(* With a budget of 2 and no booking, 60 minutes are accepted with 2.0     *)
(* units, nothing remains, and 30 minutes are then rejected.               *)
CapacityDecisionAt(s, day, m, save_ok) ==
    LET doctor == selected_doctor_id[s]
        before == appts_df[s]
        after == appts_df'[s]
    IN  (/\ TryBookStep(s, day, m, save_ok)
         /\ doctor # None
         /\ HasRecord(doctor, day)
         /\ RecordOf(doctor, day).IsAvailable)
        => IF RemainingUnits(s, doctor, day) >= UnitCost(m)
           THEN /\ last'.result = IF save_ok THEN "Committed"
                                  ELSE "PersistenceError"
                /\ Len(after) = Len(before) + 1
                /\ after[Len(after)].Units = UnitCost(m)
                /\ after[Len(after)].DurationMinutes = m
                /\ (RecordOf(doctor, day).DailyCapacityUnits = 2000
                    /\ BookedUnits(before, doctor, day, MemDate) = 0
                    /\ m = 60)
                   => /\ RemainingUnits(s, doctor, day)' = 0
                      /\ Decision(s, Date(day), 30)' = "InsufficientCapacity"
           ELSE /\ last'.result = "InsufficientCapacity"
                /\ after = before

CapacityDecision ==
    [][\A s \in Sessions, day \in Days, m \in ValidDurations,
          save_ok \in BOOLEAN : CapacityDecisionAt(s, day, m, save_ok)]_vars

\* The scenario: D1 on the 10th, budget 2, a committed 60 minute booking as
\* the only row, and a 30 minute request refused for capacity.
CapacityDecisionWitness ==
    /\ selected_doctor_id[1] = "D1"
    /\ Len(appts_df[1]) = 1
    /\ appts_df[1][1].DurationMinutes = 60
    /\ appts_df[1][1].Units = 2000
    /\ disk = save_appointments(appts_df[1])
    /\ last.result = "InsufficientCapacity"
    /\ last.duration = 30
    /\ last.date = Date(10)

---------------------------------------------------------------------------
(* C3  Rejection ordering, duration before capacity: a request for an       *)
(* available date with a duration outside {30,45,60} is rejected with      *)
(* InvalidDuration, never with InsufficientCapacity, also when nothing     *)
(* remains on the date.                                                    *)
DurationBeforeCapacityAt(s, day, m, save_ok) ==
    LET doctor == selected_doctor_id[s]
    IN  (/\ TryBookStep(s, day, m, save_ok)
         /\ doctor # None
         /\ HasRecord(doctor, day)
         /\ RecordOf(doctor, day).IsAvailable
         /\ m \notin ValidDurations)
        => last'.result = "InvalidDuration"

DurationBeforeCapacity ==
    [][\A s \in Sessions, day \in Days, m \in Durations, save_ok \in BOOLEAN :
          DurationBeforeCapacityAt(s, day, m, save_ok)]_vars

\* An invalid duration was refused as such on a day with nothing left.
DurationBeforeCapacityWitness ==
    /\ last.result = "InvalidDuration"
    /\ last.session = 1
    /\ opened[1]
    /\ selected_doctor_id[1] = "D1"
    /\ last.date = Date(10)
    /\ RemainingUnits(1, "D1", 10) = 0

---------------------------------------------------------------------------
(* C4  Rejection ordering, the first failing check wins: a request of a    *)
(* session without a doctor is rejected with NoDoctor whatever its date,   *)
(* duration and capacity are; with a doctor, a request for a day without   *)
(* a record or a closed day is rejected with Unavailable also when its     *)
(* duration is invalid; then the duration is checked, then the capacity.   *)
FirstFailingCheck(s, day, m) ==
    LET doctor == selected_doctor_id[s]
    IN  IF doctor = None THEN "NoDoctor"
        ELSE IF ~HasRecord(doctor, day) THEN "Unavailable"
        ELSE IF ~RecordOf(doctor, day).IsAvailable THEN "Unavailable"
        ELSE IF m \notin ValidDurations THEN "InvalidDuration"
        ELSE IF RemainingUnits(s, doctor, day) < UnitCost(m)
             THEN "InsufficientCapacity"
        ELSE "None"

RejectionOrder ==
    [][\A s \in Sessions, day \in Days, m \in Durations, save_ok \in BOOLEAN :
          TryBookStep(s, day, m, save_ok) =>
              IF FirstFailingCheck(s, day, m) = "None"
              THEN last'.result \notin Rejections
              ELSE last'.result = FirstFailingCheck(s, day, m)]_vars

\* A session without a doctor asked for a closed day with an invalid duration
\* and was told that the doctor is missing.
RejectionOrderWitness ==
    /\ last.result = "NoDoctor"
    /\ last.duration = 20
    /\ last.date = Date(11)
    /\ disk # <<>>

---------------------------------------------------------------------------
(* C5  Fail closed on availability: every request for a (doctorId, date)   *)
(* without an availability record, or with a record that is not            *)
(* available, is rejected with Unavailable, whatever the day's budget and  *)
(* the ledger are.                                                         *)
FailClosed ==
    [][\A s \in Sessions, day \in Days, m \in Durations, save_ok \in BOOLEAN :
          (/\ TryBookStep(s, day, m, save_ok)
           /\ selected_doctor_id[s] \in Doctors
           /\ \A i \in DOMAIN availability_df :
                  (/\ availability_df[i].DoctorID = selected_doctor_id[s]
                   /\ availability_df[i].Date = Date(day))
                  => ~availability_df[i].IsAvailable)
          => /\ last'.result = "Unavailable"
             /\ appts_df' = appts_df
             /\ disk' = disk]_vars

\* A 30 minute request for the closed day of D1, which has a budget of 3 and
\* no booking, was refused as unavailable.
FailClosedWitness ==
    /\ last.result = "Unavailable"
    /\ last.duration = 30
    /\ last.date = Date(11)
    /\ selected_doctor_id[1] = "D1"
    /\ RemainingUnits(1, "D1", 11) = 3000

---------------------------------------------------------------------------
(* C6  No state change on rejection: a request rejected for any reason     *)
(* leaves the ledger of the session and the appointments file unchanged,   *)
(* writes nothing and sends no on_confirm notification.                    *)
RejectionChangesNothing ==
    [][\A s \in Sessions, day \in Days, m \in Durations, save_ok \in BOOLEAN :
          (TryBookStep(s, day, m, save_ok) /\ last'.result \in Rejections)
          => /\ appts_df' = appts_df
             /\ disk' = disk
             /\ ~last'.saved
             /\ last'.confirms = <<>>
             /\ UNCHANGED <<opened, selected_doctor_id>>]_vars

\* A request was refused for capacity while the ledger of the session held a
\* row that the file does not hold.
RejectionChangesNothingWitness ==
    /\ last.result = "InsufficientCapacity"
    /\ opened[1]
    /\ Len(appts_df[1]) > Len(disk)

---------------------------------------------------------------------------
(* C7  Persistence failure means not committed: when the write of the      *)
(* ledger fails in a booking, the error propagates, the ledger that later  *)
(* capacity queries of the session read does not hold the appointment      *)
(* (the remaining units of the date are unchanged), and no on_confirm      *)
(* notification is sent.                                                   *)
FailedWriteNotCommitted ==
    [][\A s \in Sessions, day \in Days, m \in Durations :
          (TryBookStep(s, day, m, FALSE) /\ Decision(s, Date(day), m) = "Validated")
          => /\ last'.result = "PersistenceError"
             /\ last'.confirms = <<>>
             /\ disk' = disk
             /\ appts_df'[s] = appts_df[s]
             /\ RemainingUnits(s, selected_doctor_id[s], day)'
                    = RemainingUnits(s, selected_doctor_id[s], day)]_vars

---------------------------------------------------------------------------
(* C8  Booking transactions on one (doctorId, date) do not interleave:     *)
(* with two sessions over the same appointments file, the capacity check   *)
(* of a request reads every appointment the file holds, so that the file   *)
(* keeps every committed appointment and its Booked units of the pair      *)
(* never exceed the day's budget.                                          *)
SamePair(r, doctor, day) ==
    r.DoctorID = doctor /\ FileDate(r) = Date(day)

NoInterleaving ==
    [][\A s \in Sessions, day \in Days, m \in Durations, save_ok \in BOOLEAN :
          (TryBookStep(s, day, m, save_ok) /\ last'.result = "Committed")
          => LET doctor == selected_doctor_id[s]
             IN  /\ \A i \in DOMAIN disk :
                        SamePair(disk[i], doctor, day) =>
                            \E j \in DOMAIN appts_df[s] :
                                disk[i] = SaveRow(appts_df[s][j])
                 /\ \A i \in DOMAIN disk :
                        SamePair(disk[i], doctor, day) =>
                            \E j \in DOMAIN disk' : disk'[j] = disk[i]
                 /\ BookedUnits(disk', doctor, day, FileDate)
                        <= RecordOf(doctor, day).DailyCapacityUnits]_vars

---------------------------------------------------------------------------
(* C9  Unique appointment ids: after any sequence of successful bookings,  *)
(* however little time passes between two of them, the appointments of a   *)
(* ledger have pairwise distinct AppointmentID values.                     *)
DistinctIds(df) ==
    \A i, j \in DOMAIN df : df[i].AppointmentID = df[j].AppointmentID => i = j

UniqueAppointmentIds ==
    [][\A s \in Sessions, day \in Days, m \in Durations :
          (/\ TryBookStep(s, day, m, TRUE)
           /\ last'.result = "Committed"
           /\ disk = save_appointments(appts_df[s])
           /\ DistinctIds(appts_df[s]))
          => DistinctIds(appts_df'[s]) /\ DistinctIds(disk')]_vars

---------------------------------------------------------------------------
(* C10  Monotonic consumption: a successful booking of duration D for      *)
(* (doctorId, date) makes the remaining units of that pair smaller by      *)
(* exactly the unit cost of D (1.0, 1.5 or 2.0) and leaves the remaining   *)
(* units of every other pair as they were.                                 *)
MonotonicConsumption ==
    [][\A s \in Sessions, day \in Days, m \in Durations, save_ok \in BOOLEAN :
          (TryBookStep(s, day, m, save_ok) /\ last'.result = "Committed")
          => \A doctor \in Doctors, d \in Days :
                 HasRecord(doctor, d) =>
                     RemainingUnits(s, doctor, d)' =
                         IF doctor = selected_doctor_id[s] /\ d = day
                         THEN RemainingUnits(s, doctor, d) - UnitCost(m)
                         ELSE RemainingUnits(s, doctor, d)]_vars

\* A 45 minute booking was committed on a day that already had a booking.
MonotonicConsumptionWitness ==
    /\ last.result = "Committed"
    /\ last.duration = 45
    /\ opened[1]
    /\ Len(appts_df[1]) >= 2
    /\ appts_df[1][Len(appts_df[1])].DurationMinutes = 45
    /\ RemainingUnits(1, "D2", 10) = 500

---------------------------------------------------------------------------
(* C11  Idempotent read: two capacity queries of a session for the same    *)
(* (doctorId, date) with no successful booking between them return the     *)
(* same dailyCapacityUnits, consumedUnits and remainingUnits: a step that  *)
(* is not a successful booking of the session leaves the snapshot of       *)
(* every pair as it was.                                                   *)
CapacitySnapshot(s, doctor, day) ==
    [dailyCapacityUnits |-> RecordOf(doctor, day).DailyCapacityUnits,
     consumedUnits |-> BookedUnits(appts_df[s], doctor, day, MemDate),
     remainingUnits |-> RemainingUnits(s, doctor, day)]

SuccessfulBooking(s) ==
    \E day \in Days, m \in Durations :
        TryBookStep(s, day, m, TRUE) /\ last'.result = "Committed"

IdempotentRead ==
    [][\A s \in Sessions :
          (opened[s] /\ opened'[s] /\ ~SuccessfulBooking(s))
          => \A doctor \in Doctors, day \in Days :
                 HasRecord(doctor, day) =>
                     CapacitySnapshot(s, doctor, day)'
                         = CapacitySnapshot(s, doctor, day)]_vars

---------------------------------------------------------------------------
(* C12  Commit notification: a committed booking calls on_confirm exactly  *)
(* once, with the duration and the date of that booking, after the         *)
(* appointment was appended to the ledger and written to the file; a       *)
(* request that is rejected or whose write fails calls it not at all, and  *)
(* nothing else changes what the application recorded from on_confirm.     *)
\* The position of event e in the trace of a call, 0 when it did not occur.
EventAt(events, e) ==
    IF \E i \in DOMAIN events : events[i] = e
    THEN CHOOSE i \in DOMAIN events : events[i] = e
    ELSE 0

\* The last row of the session's ledger and of the file is the appointment
\* of the request.
AppendedAndPersisted(s, doctor, day, m) ==
    /\ appts_df[s] # <<>>
    /\ LET r == appts_df[s][Len(appts_df[s])]
       IN  /\ r.DoctorID = doctor
           /\ r.AppointmentDate = Date(day)
           /\ r.DurationMinutes = m
           /\ disk # <<>>
           /\ disk[Len(disk)] = SaveRow(r)

CommitNotification ==
    [][/\ \A s \in Sessions, day \in Days, m \in Durations, save_ok \in BOOLEAN :
            TryBookStep(s, day, m, save_ok) =>
                IF last'.result = "Committed"
                THEN /\ last'.confirms = << <<m, Date(day)>> >>
                     /\ AppendedAndPersisted(s, selected_doctor_id[s], day, m)'
                     /\ 0 < EventAt(last'.events, "concat")
                     /\ EventAt(last'.events, "concat")
                            < EventAt(last'.events, "save")
                     /\ EventAt(last'.events, "save")
                            < EventAt(last'.events, "on_confirm")
                     /\ last_appointment_minutes'[s] = m
                     /\ last_appointment_date'[s] = Date(day)
                     /\ \A a \in Sessions \ {s} :
                            /\ last_appointment_minutes'[a]
                                   = last_appointment_minutes[a]
                            /\ last_appointment_date'[a] = last_appointment_date[a]
                ELSE /\ last'.confirms = <<>>
                     /\ EventAt(last'.events, "on_confirm") = 0
                     /\ UNCHANGED Confirmed
       /\ (last' = last) => UNCHANGED Confirmed]_vars

\* A 45 minute booking was committed after an earlier notification for 30
\* minutes on the same day.
CommitNotificationWitness ==
    /\ last.result = "Committed"
    /\ last.confirms = << <<45, Date(10)>> >>
    /\ last_appointment_minutes[1] = 45
    /\ last_appointment_date[1] = Date(10)
    /\ Len(disk) >= 2
    /\ disk[Len(disk)].DurationMinutes = 45
    /\ disk[Len(disk) - 1].DurationMinutes = 30

---------------------------------------------------------------------------
(* C13  Offerable date: for every doctor and date, _get_day_info reports   *)
(* the date clickable if and only if an availability record exists with    *)
(* IsAvailable and the remaining units are more than 0; a date without a   *)
(* record, a closed day and a day with nothing remaining are not           *)
(* clickable.  The day buttons of a window whose ledger is as the file     *)
(* holds it are enabled for exactly these dates of its doctor.             *)
Offerable(s, doctor, day) ==
    /\ HasRecord(doctor, day)
    /\ RecordOf(doctor, day).IsAvailable
    /\ RemainingUnits(s, doctor, day) > 0

OfferableDate ==
    \A s \in Sessions :
        opened[s] =>
            /\ \A doctor \in Doctors, day \in Days :
                   /\ _get_day_info(s, doctor, Date(day)).clickable
                          <=> Offerable(s, doctor, day)
                   /\ ~HasRecord(doctor, day) =>
                          ~_get_day_info(s, doctor, Date(day)).clickable
                   /\ (HasRecord(doctor, day) /\ ~RecordOf(doctor, day).IsAvailable)
                          => ~_get_day_info(s, doctor, Date(day)).clickable
                   /\ (HasRecord(doctor, day) /\ RemainingUnits(s, doctor, day) = 0)
                          => ~_get_day_info(s, doctor, Date(day)).clickable
            /\ (selected_doctor_id[s] # None /\ disk = save_appointments(appts_df[s]))
                   => \A day \in Days :
                          day_buttons[s][day].state = "normal"
                              <=> Offerable(s, selected_doctor_id[s], day)

\* After a committed booking the window of doctor D1 shows the 10th as fully
\* booked and the 11th as closed.
OfferableDateWitness ==
    /\ opened[1]
    /\ selected_doctor_id[1] = "D1"
    /\ last.result = "Committed"
    /\ disk = save_appointments(appts_df[1])
    /\ day_buttons[1][10] = [state |-> "disabled",
                             tooltip |-> <<"Unavailable: Fully booked", 0>>]
    /\ day_buttons[1][11].state = "disabled"
    /\ RemainingUnits(1, "D1", 10) = 0
    /\ _get_day_info(1, "D2", Date(10)).clickable

---------------------------------------------------------------------------
(* C14  Remaining capacity formula: for every ledger and every             *)
(* (doctorId, date), the remaining units are max(0, dailyCapacityUnits -   *)
(* consumedUnits) rounded to two decimals: a multiple of 0.01 within       *)
(* 0.005 of that number, never negative, and 0 when the ledger already     *)
(* holds more Booked units than the day's budget.                          *)
\* The status of a row is Booked, however the file spells it.
IsBooked(r) == r.Status \in {"Booked", "BOOKED", "booked"}

\* What row r adds to the consumed units of (doctor, day).
Contribution(r, doctor, day) ==
    IF r.DoctorID = doctor /\ r.AppointmentDate = Date(day) /\ IsBooked(r)
    THEN r.Units ELSE 0

\* consumedUnits of (doctor, day) in the ledger df, row by row.
RECURSIVE ConsumedUnits(_, _, _)
ConsumedUnits(df, doctor, day) ==
    IF df = <<>> THEN 0
    ELSE Contribution(df[Len(df)], doctor, day)
             + ConsumedUnits(SubSeq(df, 1, Len(df) - 1), doctor, day)

Abs(x) == IF x >= 0 THEN x ELSE -x

RemainingFormula ==
    \A s \in Sessions, doctor \in Doctors, day \in Days :
        (opened[s] /\ HasRecord(doctor, day)) =>
            LET daily == RecordOf(doctor, day).DailyCapacityUnits
                consumed == ConsumedUnits(appts_df[s], doctor, day)
                exact == IF daily - consumed > 0 THEN daily - consumed ELSE 0
                remaining == RemainingUnits(s, doctor, day)
            IN  /\ remaining >= 0
                /\ remaining % 10 = 0
                /\ Abs(remaining - exact) <= 5
                /\ consumed >= daily => remaining = 0

\* The ledger holds 3.004 Booked units of doctor D1 on the 10th, whose
\* budget is 2, and a request for that day was refused.
RemainingFormulaWitness ==
    /\ opened[1]
    /\ selected_doctor_id[1] = "D1"
    /\ ConsumedUnits(appts_df[1], "D1", 10) = 3004
    /\ RemainingUnits(1, "D1", 10) = 0
    /\ RemainingUnits(1, "D2", 10) = 3000
    /\ last.result = "InsufficientCapacity"
    /\ last.date = Date(10)

---------------------------------------------------------------------------
(* C15  Consumed units: the units counted against (doctorId, date) are     *)
(* the sum of Units over exactly the ledger rows whose doctor and date     *)
(* both match and whose status is Booked: every such row adds its Units,   *)
(* a row of another doctor, of another date or with another status (e.g.   *)
(* Cancelled) adds nothing, and the result is 0 when no row matches.       *)
\* The ledger df without its row i.
WithoutRow(df, i) == SubSeq(df, 1, i - 1) \o SubSeq(df, i + 1, Len(df))

ConsumedUnitsSum ==
    \A s \in Sessions, doctor \in Doctors, day \in Days :
        opened[s] =>
            LET df == appts_df[s]
                used == UsedIn(df, doctor, Date(day))
            IN  /\ used = ConsumedUnits(df, doctor, day)
                /\ \A i \in DOMAIN df :
                       used - UsedIn(WithoutRow(df, i), doctor, Date(day)) =
                           IF /\ df[i].DoctorID = doctor
                              /\ df[i].AppointmentDate = Date(day)
                              /\ IsBooked(df[i])
                           THEN df[i].Units ELSE 0
                /\ (\A i \in DOMAIN df : Contribution(df[i], doctor, day) = 0)
                       => used = 0

\* The ledger of the window holds a Booked and a Cancelled row of doctor D1
\* on the 10th and a Booked row of doctor D2 on that day: 2.0 units count.
ConsumedUnitsSumWitness ==
    /\ opened[1]
    /\ Len(appts_df[1]) = 3
    /\ \E i, j, k \in DOMAIN appts_df[1] :
           /\ appts_df[1][i].DoctorID = "D1"
           /\ appts_df[1][i].AppointmentDate = Date(10)
           /\ appts_df[1][i].Status = "Cancelled"
           /\ appts_df[1][j].DoctorID = "D2"
           /\ appts_df[1][j].AppointmentDate = Date(10)
           /\ appts_df[1][j].Status = "BOOKED"
           /\ appts_df[1][k].DoctorID = "D1"
           /\ appts_df[1][k].AppointmentDate = Date(10)
           /\ appts_df[1][k].Status = "Booked"
           /\ appts_df[1][k].Units = 2000
    /\ UsedIn(appts_df[1], "D1", Date(10)) = 2000
    /\ UsedIn(appts_df[1], "D1", Date(11)) = 0

---------------------------------------------------------------------------
(* C16  Units follow duration: every appointment a booking adds to the     *)
(* ledger of its session or to the appointments file has a duration of     *)
(* 30, 45 or 60 minutes and Units equal to the cost of that duration:      *)
(* 1.0 for 30, 1.5 for 45, 2.0 for 60.                                     *)
UnitsOfDuration(r) ==
    /\ r.DurationMinutes \in ValidDurations
    /\ r.Units = UnitCost(r.DurationMinutes)

UnitsFollowDuration ==
    [][\A s \in Sessions, day \in Days, m \in Durations, save_ok \in BOOLEAN :
          TryBookStep(s, day, m, save_ok) =>
              /\ \A i \in DOMAIN appts_df'[s] \ DOMAIN appts_df[s] :
                     /\ UnitsOfDuration(appts_df'[s][i])
                     /\ appts_df'[s][i].DurationMinutes = m
              /\ \A i \in DOMAIN disk' \ DOMAIN disk :
                     UnitsOfDuration(disk'[i])]_vars

\* The ledger holds a committed appointment of each duration.
UnitsFollowDurationWitness ==
    /\ opened[1]
    /\ last.result = "Committed"
    /\ \A m \in ValidDurations :
           \E i \in DOMAIN appts_df[1] :
               /\ appts_df[1][i].AppointmentID >= 0
               /\ appts_df[1][i].DurationMinutes = m
               /\ appts_df[1][i].Units = UnitCost(m)
    /\ disk = save_appointments(appts_df[1])

---------------------------------------------------------------------------
(* C17  Append-only ledger: a successful booking adds exactly one entry    *)
(* to the ledger of its session, the last one, with the doctor of the      *)
(* session, the date and the duration of the request and status Booked;    *)
(* every entry that was in the ledger or in the file stays as it was and   *)
(* where it was; no request changes or removes an entry, so neither the    *)
(* ledger of an open session nor the file ever gets shorter.               *)
IsPrefix(old, new) ==
    /\ Len(old) <= Len(new)
    /\ \A i \in DOMAIN old : new[i] = old[i]

AppendOnly ==
    [][/\ \A s \in Sessions, day \in Days, m \in Durations, save_ok \in BOOLEAN :
            (TryBookStep(s, day, m, save_ok) /\ last'.result = "Committed") =>
                LET n == Len(appts_df[s])
                    r == appts_df'[s][n + 1]
                IN  /\ Len(appts_df'[s]) = n + 1
                    /\ r.DoctorID = selected_doctor_id[s]
                    /\ r.AppointmentDate = Date(day)
                    /\ r.DurationMinutes = m
                    /\ r.Status = "Booked"
                    /\ disk' = save_appointments(appts_df'[s])
       /\ \A s \in Sessions :
              (opened[s] /\ opened'[s]) => IsPrefix(appts_df[s], appts_df'[s])
       /\ IsPrefix(disk, disk')]_vars

\* A third appointment was committed after an entry of an earlier run and
\* an entry of this run.
AppendOnlyWitness ==
    /\ opened[1]
    /\ last.result = "Committed"
    /\ Len(appts_df[1]) = 3
    /\ appts_df[1][1].AppointmentID = -1
    /\ appts_df[1][2].AppointmentID >= 0
    /\ appts_df[1][3].AppointmentDate = last.date
    /\ appts_df[1][3].DurationMinutes = last.duration
    /\ Len(disk) = 3

---------------------------------------------------------------------------
(* C18  Booking state machine: every request ends in exactly one outcome:  *)
(* rejected with the reason of its first failing check, committed, or a    *)
(* persistence error that leaves _try_book.  A request is validated, and   *)
(* then committed or failed in the write, only when all four checks pass.  *)
(* A rejected request is terminal: it changes nothing, and only a later    *)
(* request that passes the four checks adds to a ledger or to the file,    *)
(* so a rejected request is neither committed later nor retried.           *)
Outcomes == Rejections \cup {"Committed", "PersistenceError"}

\* The step is a request that passes the four checks.
ValidatedRequest ==
    \E s \in Sessions, day \in Days, m \in Durations, save_ok \in BOOLEAN :
        /\ TryBookStep(s, day, m, save_ok)
        /\ FirstFailingCheck(s, day, m) = "None"

BookingStateMachine ==
    [][/\ \A s \in Sessions, day \in Days, m \in Durations, save_ok \in BOOLEAN :
            TryBookStep(s, day, m, save_ok) =>
                /\ last'.result \in Outcomes
                /\ IF FirstFailingCheck(s, day, m) = "None"
                   THEN /\ last'.result = IF save_ok THEN "Committed"
                                          ELSE "PersistenceError"
                        /\ EventAt(last'.events, "concat") = 1
                        /\ EventAt(last'.events, "message")
                               = IF save_ok THEN 4 ELSE 0
                   ELSE /\ last'.result = FirstFailingCheck(s, day, m)
                        /\ last'.events = <<"message">>
                        /\ ~last'.saved
                        /\ UNCHANGED <<calendar, hospital>>
       /\ (\/ disk' # disk
           \/ \E s \in Sessions :
                  opened[s] /\ opened'[s] /\ appts_df'[s] # appts_df[s])
              => ValidatedRequest]_vars

\* A request was rejected for capacity after an appointment of the session
\* was committed; the ledger and the file hold that appointment only.
BookingStateMachineWitness ==
    /\ opened[1]
    /\ last.result = "InsufficientCapacity"
    /\ last.duration = 60
    /\ Len(appts_df[1]) = 1
    /\ appts_df[1][1].AppointmentID >= 0
    /\ appts_df[1][1].DurationMinutes = 30
    /\ disk = save_appointments(appts_df[1])
    /\ last_appointment_minutes[1] = 30

---------------------------------------------------------------------------
(* C19  Billing derivation: for every specialty, duration and insurance    *)
(* id, the estimate of the billing screen has grossCost = baseFee *        *)
(* timeMultiplier, discountAmount = grossCost * discountPercent / 100 and  *)
(* netCost = grossCost - discountAmount, for the duration of the last      *)
(* confirmed appointment; for cardiology (base fee 200), insurance INS1    *)
(* (20 percent) and 45 minutes the multiplier is 2.0, the gross cost 400,  *)
(* the discount 80 and the net cost 320.                                   *)
BillingDerivation ==
    \A a \in Sessions :
        billing[a].shown =>
            LET q == billing[a].result_var
            IN  /\ q.mins = last_appointment_minutes[a]
                /\ q.gross * Tenths = q.base_fee * q.mult
                /\ q.discount_amt * 100 = q.gross * q.discount_pct
                /\ q.net = q.gross - q.discount_amt
                /\ billing[a].last_net_cost = q.net
                /\ (/\ q.base_fee = 200 * Cents
                    /\ q.discount_pct = 20
                    /\ q.mins = 45)
                       => /\ q.mult = 2 * Tenths
                          /\ q.gross = 400 * Cents
                          /\ q.discount_amt = 80 * Cents
                          /\ q.net = 320 * Cents
                /\ (/\ billing[a].doctor_info.Specialty = "Cardiology"
                    /\ patient[a].insurance = "INS1"
                    /\ last_appointment_minutes[a] = 45)
                       => /\ q.base_fee = 200 * Cents
                          /\ q.discount_pct = 20
                          /\ q.net = 320 * Cents

\* The estimate for a cardiologist, insurance INS1 and 45 minutes.
BillingDerivationWitness ==
    /\ billing[1].shown
    /\ billing[1].doctor_info.Specialty = "Cardiology"
    /\ patient[1].insurance = "INS1"
    /\ billing[1].result_var =
           [base_fee |-> 20000, mins |-> 45, mult |-> 20, gross |-> 40000,
            discount_pct |-> 20, discount_amt |-> 8000, net |-> 32000]

---------------------------------------------------------------------------
(* C20  Billing lookups never fail: a specialty that is not in the fee     *)
(* table gives base fee 0, an insurance id that is empty or not in the     *)
(* discount table gives discount 0 percent, and the estimate is produced   *)
(* all the same: the billing screen opens for every doctor and every       *)
(* insurance once an appointment is confirmed.  For an unknown specialty   *)
(* and no insurance the net cost is 0.                                     *)
\* The texts that name a specialty of Doctor_Fees.csv or an insurance of
\* Insurance_Companies.csv, whatever their case and the blanks around them.
InFeeTable(sp) ==
    sp \in {"Cardiology", " cardiology ", "CARDIOLOGY", "Neurology", "Pediatrics"}
InDiscountTable(ins) == ins \in {"INS1", " INS1 ", "INS2", "INS3"}
NoInsurance(ins) == ins \in {None, "", "  "}

BillingLookupsNeverFail ==
    \A a \in Sessions :
        /\ billing[a].shown =>
               LET q == billing[a].result_var
                   sp == billing[a].doctor_info.Specialty
                   ins == patient[a].insurance
               IN  /\ ~InFeeTable(sp) => q.base_fee = 0
                   /\ (NoInsurance(ins) \/ ~InDiscountTable(ins))
                          => q.discount_pct = 0
                   /\ (~InFeeTable(sp) /\ NoInsurance(ins)) => q.net = 0
                   /\ \A f \in DOMAIN q : q[f] \in Nat
        /\ (/\ ~opened[a]
            /\ ~billing[a].shown
            /\ last_appointment_minutes[a] \in ValidDurations
            /\ last_appointment_date[a] # NoDate)
               => \A doctor_info \in DoctorInfos :
                      ENABLED show_billing_screen(a, doctor_info)

\* The estimate for a dermatologist, who is not in the fee table, and a
\* patient without insurance.
BillingLookupsNeverFailWitness ==
    /\ billing[1].shown
    /\ billing[1].doctor_info.Specialty = "Dermatology"
    /\ patient[1].insurance = None
    /\ billing[1].result_var.base_fee = 0
    /\ billing[1].result_var.discount_pct = 0
    /\ billing[1].result_var.net = 0

---------------------------------------------------------------------------
(* C21  Billing time multiplier: the estimate uses the multiplier 1.5 for  *)
(* 30 minutes, 2.0 for 45 and 2.5 for 60; for every other recorded         *)
(* duration, an unset one included, the estimate is made all the same,     *)
(* as for 30 minutes, with the multiplier 1.5.                             *)
TimeMultiplierOf(m) == IF m = 45 THEN 20 ELSE IF m = 60 THEN 25 ELSE 15

BillingTimeMultiplier ==
    \A a \in Sessions :
        /\ billing[a].shown =>
               LET q == billing[a].result_var
                   m == last_appointment_minutes[a]
               IN  /\ q.mult = TimeMultiplierOf(m)
                   /\ q.mins = IF m \in ValidDurations THEN m ELSE 30
                   /\ q.gross * Tenths = q.base_fee * TimeMultiplierOf(m)
        /\ (~opened[a] /\ ~billing[a].shown)
               => \A doctor_info \in DoctorInfos :
                      ENABLED BillingScreen_init(a, doctor_info)

\* The estimate of a cardiologist for an application without a recorded
\* duration: 200 times 1.5.
BillingTimeMultiplierWitness ==
    /\ billing[1].shown
    /\ last_appointment_minutes[1] = NoMinutes
    /\ billing[1].doctor_info.Specialty = "Cardiology"
    /\ billing[1].result_var.mins = 30
    /\ billing[1].result_var.mult = 15
    /\ billing[1].result_var.gross = 300 * Cents

---------------------------------------------------------------------------
(* C22  Billing determinism: with the fee and discount tables unchanged,   *)
(* the estimate is a function of the specialty, the duration and the       *)
(* insurance id alone: whatever bookings, rejected requests, earlier       *)
(* visits of the billing screen and Recalculate presses came before, the   *)
(* same three inputs give the same base fee, multiplier, gross cost,       *)
(* discount percent, discount amount and net cost.                         *)
\* The estimate for the three inputs, from the two tables as they are.
FeeOf(sp) ==
    IF sp \in {"Cardiology", " cardiology ", "CARDIOLOGY"} THEN 200 * Cents
    ELSE IF sp = "Pediatrics" THEN 150 * Cents
    ELSE 0

PercentOf(ins) ==
    IF ins \in {"INS1", " INS1 "} THEN 20 ELSE IF ins = "INS3" THEN 50 ELSE 0

QuoteFor(sp, m, ins) ==
    LET gross == (FeeOf(sp) * TimeMultiplierOf(m)) \div Tenths
        discount == (gross * PercentOf(ins)) \div 100
    IN  [base_fee |-> FeeOf(sp), mins |-> m, mult |-> TimeMultiplierOf(m),
         gross |-> gross, discount_pct |-> PercentOf(ins),
         discount_amt |-> discount, net |-> gross - discount]

BillingDeterminism ==
    \A a \in Sessions :
        billing[a].shown =>
            /\ billing[a].result_var =
                   QuoteFor(billing[a].doctor_info.Specialty,
                            last_appointment_minutes[a], patient[a].insurance)
            /\ billing[a].last_net_cost = billing[a].result_var.net
            /\ \A b \in Sessions :
                   (/\ billing[b].shown
                    /\ billing[b].doctor_info.Specialty
                           = billing[a].doctor_info.Specialty
                    /\ last_appointment_minutes[b] = last_appointment_minutes[a]
                    /\ patient[b].insurance = patient[a].insurance)
                       => billing[b].result_var = billing[a].result_var

\* The estimate of a cardiologist, insurance INS3 and 60 minutes, shown
\* after two appointments were committed and a third request was rejected.
BillingDeterminismWitness ==
    /\ billing[1].shown
    /\ Len(disk) = 2
    /\ last.result \in Rejections
    /\ billing[1].doctor_info.Specialty = "CARDIOLOGY"
    /\ patient[1].insurance = "INS3"
    /\ billing[1].result_var =
           [base_fee |-> 20000, mins |-> 60, mult |-> 25, gross |-> 50000,
            discount_pct |-> 50, discount_amt |-> 25000, net |-> 25000]

---------------------------------------------------------------------------
(* C23  Quote belongs to one committed appointment: the estimate of the    *)
(* billing screen is made for the duration and the date of an appointment  *)
(* committed in the session and for the doctor that this appointment was   *)
(* booked with, also when billing is opened from the details screen of     *)
(* another doctor than the one the appointment was booked with.            *)
\* Row r of the file is an appointment of doctor_info with the recorded
\* duration and date of copy a.
QuotedAppointment(r, a, doctor_info) ==
    /\ r.AppointmentID >= 0
    /\ r.DurationMinutes = last_appointment_minutes[a]
    /\ FileDate(r) = last_appointment_date[a]
    /\ r.DoctorID = ResolveDoctor(doctor_info)

QuoteOfCommittedAppointment ==
    \A a \in Sessions :
        billing[a].shown =>
            /\ billing[a].result_var.mins = last_appointment_minutes[a]
            /\ \E i \in DOMAIN disk :
                   QuotedAppointment(disk[i], a, billing[a].doctor_info)

---------------------------------------------------------------------------
(* C24  Billing requires a prior commit: the billing screen is shown, and  *)
(* an estimate made, only after a booking was committed in the session:    *)
(* on_appointment_confirmed has recorded a duration of 30, 45 or 60        *)
(* minutes and a date, those of an appointment in the file.  Before any    *)
(* commit, also after rejected requests and failed writes, pressing the    *)
(* billing button leaves the screen as it is and makes no estimate.        *)
NoCommitYet(a) ==
    last_appointment_minutes[a] = NoMinutes /\ last_appointment_date[a] = NoDate

BillingRequiresCommit ==
    \A a \in Sessions :
        /\ billing[a].shown =>
               /\ last_appointment_minutes[a] \in ValidDurations
               /\ last_appointment_date[a] # NoDate
               /\ \E i \in DOMAIN disk :
                      /\ disk[i].AppointmentID >= 0
                      /\ disk[i].DurationMinutes = last_appointment_minutes[a]
                      /\ FileDate(disk[i]) = last_appointment_date[a]
        /\ NoCommitYet(a) =>
               /\ billing[a] = NoBilling
               /\ \A doctor_info \in DoctorInfos :
                      ~ENABLED (show_billing_screen(a, doctor_info) /\ billing' # billing)
        /\ (\A i \in DOMAIN disk : disk[i].AppointmentID < 0) => NoCommitYet(a)

\* The estimate is shown after a committed 45 minute appointment and a
\* later rejected request.
BillingRequiresCommitWitness ==
    /\ billing[1].shown
    /\ last.result = "InsufficientCapacity"
    /\ last_appointment_minutes[1] = 45
    /\ Len(disk) = 1
    /\ disk[1].DurationMinutes = 45
    /\ billing[1].result_var.mins = 45


---------------------------------------------------------------------------
\* C25: within one visit of the billing screen, Save Billing Record appends
\* at most one record to Billing.csv however often it and Recalculate are
\* pressed: a step changes the file only by appending one record on a visit
\* that has not saved yet and marks the visit saved, and a visit that has
\* saved stays saved and leaves the file unchanged for as long as the screen
\* is shown.
SaveBillingOnce ==
    [][\A a \in Sessions :
         /\ IsPrefix(billing_csv, billing_csv')
         /\ Len(billing_csv') <= Len(billing_csv) + 1
         /\ (billing_csv' # billing_csv /\ a = 1) =>
                /\ billing[a].shown /\ ~billing[a].saved_once
                /\ billing'[a].shown /\ billing'[a].saved_once
                /\ billing'[a].doctor_info = billing[a].doctor_info
         /\ (billing[a].shown /\ billing[a].saved_once /\ billing'[a].shown) =>
                /\ billing'[a].saved_once
                /\ billing_csv' = billing_csv]_vars

\* The visit has saved its record, a second record of an earlier visit is in
\* the file, and Save Billing Record can be pressed again.
SaveBillingOnceWitness ==
    /\ billing[1].shown
    /\ billing[1].saved_once
    /\ Len(billing_csv) = 2
    /\ billing_csv[2].DoctorName = billing[1].doctor_info.Name
    /\ ENABLED save_billing_once(1, TRUE)
    /\ ENABLED recalc(1)

---------------------------------------------------------------------------
\* C26: an offered date is bookable: whenever _get_day_info makes a date of
\* the selected doctor clickable, a 30-minute request for that date passes
\* the validation of _try_book, so no ledger leaves a date offered while
\* every duration is rejected with InsufficientCapacity.
OfferedDateIsBookable ==
    \A s \in Sessions :
        (opened[s] /\ selected_doctor_id[s] # None) =>
            \A day \in Days :
                _get_day_info(s, selected_doctor_id[s], Date(day)).clickable
                    => /\ Decision(s, Date(day), 30) = "Validated"
                       /\ \E m \in ValidDurations :
                              Decision(s, Date(day), m) # "InsufficientCapacity"

---------------------------------------------------------------------------
\* C27: the calendar view is never stale: after every completed booking
\* request of a session, accepted or rejected, each day button of the month
\* is enabled if and only if that date is offerable for the selected doctor
\* under the in-memory ledger the request leaves.
FreshButtons(s) ==
    \A day \in Days :
        day_buttons[s][day].state = "normal"
            <=> /\ selected_doctor_id[s] # None
                /\ Offerable(s, selected_doctor_id[s], day)

CalendarNeverStale ==
    [][\A s \in Sessions, day \in Days, m \in Durations, save_ok \in BOOLEAN :
         (/\ TryBookStep(s, day, m, save_ok)
          /\ last'.result \in Rejections \cup {"Committed"})
             => FreshButtons(s)']_vars

---------------------------------------------------------------------------
\* C28: a failing notification does not undo a commit: when on_confirm
\* raises during a successful booking, the appointment is the last row of
\* the in-memory ledger and the file holds that ledger, its units are taken
\* from the remaining capacity that later requests are checked against, the
\* month is rendered again from the new ledger, and _try_book returns
\* normally after its message (no exception leaves it).
FailingNotificationKeepsCommit ==
    [][\A s \in Sessions, day \in Days, m \in Durations :
         (/\ TryBookStep(s, day, m, TRUE)
          /\ on_confirm[s] = "raises"
          /\ Decision(s, Date(day), m) = "Validated")
             => /\ Len(appts_df'[s]) = Len(appts_df[s]) + 1
                /\ IsPrefix(appts_df[s], appts_df'[s])
                /\ LET row == appts_df'[s][Len(appts_df'[s])]
                   IN  /\ row.DoctorID = selected_doctor_id[s]
                       /\ row.AppointmentDate = Date(day)
                       /\ row.DurationMinutes = m
                       /\ row.Units = UnitCost(m)
                       /\ row.Status = "Booked"
                /\ disk' = save_appointments(appts_df'[s])
                /\ load_appointments' = appts_df'[s]
                /\ RemainingUnits(s, selected_doctor_id[s], day)'
                       = RemainingUnits(s, selected_doctor_id[s], day)
                             - UnitCost(m)
                /\ \A n \in ValidDurations :
                       (Decision(s, Date(day), n) = "Validated")'
                           <=> RemainingUnits(s, selected_doctor_id[s], day)
                                   - UnitCost(m) >= UnitCost(n)
                /\ day_buttons'[s] = RenderMonth(day_buttons[s], appts_df'[s],
                                                 selected_doctor_id[s])
                /\ FreshButtons(s)'
                /\ last'.result = "Committed"
                /\ last'.events = <<"concat", "save", "on_confirm raises",
                                    "message", "render">>
                /\ UNCHANGED hospital]_vars

\* on_confirm has raised during a booking that filled the date: the booking
\* is committed, the date's button is disabled and a further request for
\* the date is refused for capacity.
FailingNotificationKeepsCommitWitness ==
    /\ opened[1]
    /\ on_confirm[1] = "raises"
    /\ last.result = "Committed"
    /\ last.events[3] = "on_confirm raises"
    /\ last.date = Date(10)
    /\ disk = save_appointments(appts_df[1])
    /\ day_buttons[1][10].state = "disabled"
    /\ Decision(1, Date(10), 30) = "InsufficientCapacity"
=============================================================================
